---- MODULE Spec2Model ----
(***************************************************************************)
(* State machine of the App component (database browser, template editor,  *)
(* execution engine, result viewer).  Every piece of React state is a      *)
(* variable, every callback an action; promises handed to promiseHandler   *)
(* are requests in flight that the remote side settles later, in any order.*)
(***************************************************************************)
EXTENDS Naturals, Sequences, FiniteSets

\* ------------------------------------------------------------------ bounds

\* Largest number of remote calls outstanding at once.
MaxInFlight == 2
\* Largest value of the two remount counters (rk, editorReloadKey).
MaxKey == 2

\* ------------------------------------------------------- JavaScript values

\* JavaScript's undefined.
Undefined == [t |-> "undefined"]
\* A JavaScript string / number / array, tagged so that values of different
\* types can be compared.
Str(s) == [t |-> "string", v |-> s]
Num(n) == [t |-> "number", v |-> n]
Arr(items) == [t |-> "Array", items |-> items]

\* !v for the values a form field can hold (undefined or a string).
Falsy(v) == v = Undefined \/ v = Str("")

\* `${v}`: template-literal conversion of a value to text.
ToString(v) ==
    CASE v.t = "string" -> v.v
      [] v.t = "number" -> v.v
      [] v.t = "undefined" -> "undefined"

\* --------------------------------------------------------- remote data

Hosts == {"h1", "h2"}

\* connect(data) resolves with the database behind data.host.
DatabaseOf(host) ==
    IF host = "h1"
    THEN [name |-> "db1", schemas |-> <<[name |-> "s1"]>>]
    ELSE [name |-> "db2", schemas |-> <<[name |-> "s2"]>>]

\* getTables(schemaName) resolves with the tables of that schema.
TablesOf(schemaName) ==
    IF schemaName = "s1"
    THEN Arr(<<[name |-> "t1"], [name |-> "t2"]>>)
    ELSE Arr(<<[name |-> "t3"]>>)

\* getFields(tableName) resolves with the fields of that table.
FieldsOf(tableName) ==
    CASE tableName = "t1" ->
           Arr(<<[name |-> "t1_id", type |-> "int", nullable |-> FALSE]>>)
      [] tableName = "t2" ->
           Arr(<<[name |-> "t2_id", type |-> "int", nullable |-> FALSE],
                 [name |-> "t2_note", type |-> "varchar", nullable |-> TRUE]>>)
      [] OTHER ->
           Arr(<<[name |-> "t3_key", type |-> "varchar", nullable |-> FALSE]>>)

SchemaNames == {"s1", "s2"}
TableNames == {"t1", "t2", "t3"}

\* The three remote calls of api.
Requests ==
    [kind : {"connect"}, arg : Hosts]
      \cup [kind : {"getTables"}, arg : SchemaNames]
      \cup [kind : {"getFields"}, arg : TableNames]

\* What a remote call resolves with.
ResponseOf(req) ==
    CASE req.kind = "connect" -> DatabaseOf(req.arg)
      [] req.kind = "getTables" -> TablesOf(req.arg)
      [] req.kind = "getFields" -> FieldsOf(req.arg)

\* What a remote call rejects with.
RemoteError(req) == [t |-> "Error", name |-> "Error", message |-> req.kind]

\* api's error-to-string formatter.
stringifyError(e) ==
    CASE e.t = "string" -> e.v
      [] e.t = "Error" /\ e.name = "SyntaxError" -> "SyntaxError: Cannot use import statement outside a module"
      [] e.t = "Error" /\ e.name = "ReferenceError" -> "ReferenceError: table is not defined"
      [] e.t = "Error" /\ e.name = "TypeError" -> "TypeError: Cannot read property 'name' of undefined"
      [] e.t = "Error" /\ e.message = "connect" -> "Error: connect failed"
      [] e.t = "Error" /\ e.message = "getTables" -> "Error: getTables failed"
      [] OTHER -> "Error: getFields failed"

\* ------------------------------------------------------------ constants

\* DEFAULT_VALUE: the keys of the connection form and their defaults.
DEFAULT_VALUE ==
    [host |-> Str("localhost"), port |-> Num("3306"),
     username |-> Str("root"), password |-> Undefined]

\* The messages setEM is given literally.
\* '当前未加载任何Table, 无法导入依赖!'
MsgNothingLoaded == "no Table loaded, cannot inject definitions"
\* '没有找到return语句'
MsgNoReturn == "no return statement found"
\* '编辑器暂时未初始化完成'
MsgEditorNotReady == "editor not yet initialized"

\* One line of source text: a leading keyword the execution engine's
\* regular expression looks for ("export ", "import;" for an import
\* statement closed by a semicolon on its line, "import" for one that is
\* not), the statement, and the literal the statement embeds.
Line(kw, code, arg) == [kw |-> kw, code |-> code, arg |-> arg]

\* PRESET_DEFINITIONS: the two exported helper functions.
PRESET_DEFINITIONS ==
    << Line("export ", "function toCamelCase", Undefined),
       Line("export ", "function toUnderlineCase", Undefined) >>

\* LANGUAGES: ids the result viewer can highlight.
LANGUAGES == {"javascript", "sql"}

\* ------------------------------------------------------ template scripts

\* The model tplEditorWillMount creates: the default template script.
DefaultTemplate ==
    << Line("", "use strict", Undefined),
       Line("import;", "dbtpl", Undefined),
       Line("", "let tpl", Undefined),
       Line("", "return tpl", Undefined) >>

\* Scripts the user types into the template editor.
Scripts ==
    { DefaultTemplate,
      << Line("", "return 1+1", Undefined) >>,
      << Line("import;", "dbtpl", Undefined),
         Line("", "return table.name", Undefined) >>,
      << Line("", "throw boom", Undefined) >>,
      << Line("", "let tpl", Undefined) >>,
      << Line("import", "dbtpl", Undefined),
         Line("", "return 1+1", Undefined) >> }

\* Texts the user types into the (not read-only) result viewer.
ResultEdits == {"edited"}

\* ------------------------------------------------------ execution engine

\* JSON.stringify(v, undefined, 4): JSON text, or undefined for undefined.
JSONStringify(v) == IF v = Undefined THEN Undefined ELSE [t |-> "json", doc |-> v]

\* The value a declaration's embedded literal evaluates to: the text
\* `undefined` gives undefined, JSON text gives the document it denotes.
LiteralValue(arg) == IF arg = Undefined THEN Undefined ELSE arg.doc

\* The text setEditorDefinitions builds.
BuildDefinitions(db, tbl, flds) ==
    << Line("export ", "const database", JSONStringify(db)),
       Line("export ", "const table", JSONStringify(tbl)),
       Line("export ", "const fields", JSONStringify(flds)) >>
      \o PRESET_DEFINITIONS

\* .replace(/(?<=\n) *((import.+?;)|export )/g, ''): a line-leading import
\* statement up to its semicolon is removed, a line-leading "export " is
\* removed and its declaration kept.
RECURSIVE StripImportExport(_)
StripImportExport(code) ==
    IF code = <<>> THEN <<>>
    ELSE LET l == Head(code)
             rest == StripImportExport(Tail(code))
         IN  CASE l.kw = "import;" -> rest
               [] l.kw = "export " -> <<[l EXCEPT !.kw = ""]>> \o rest
               [] OTHER -> <<l>> \o rest

Unbound == [t |-> "unbound"]
Identifiers == {"database", "table", "fields", "tpl"}
Returned(v) == [kind |-> "return", val |-> v]
Thrown(e) == [kind |-> "throw", val |-> e]
JsError(name) == [t |-> "Error", name |-> name, message |-> ""]

\* Running a function body statement by statement.
RECURSIVE Exec(_, _, _)
Exec(code, i, env) ==
    IF i > Len(code) THEN Returned(Undefined)
    ELSE LET l == code[i] IN
         CASE l.code = "const database" ->
                Exec(code, i + 1, [env EXCEPT !["database"] = LiteralValue(l.arg)])
           [] l.code = "const table" ->
                Exec(code, i + 1, [env EXCEPT !["table"] = LiteralValue(l.arg)])
           [] l.code = "const fields" ->
                Exec(code, i + 1, [env EXCEPT !["fields"] = LiteralValue(l.arg)])
           [] l.code = "let tpl" ->
                Exec(code, i + 1, [env EXCEPT !["tpl"] = Str("")])
           [] l.code = "return tpl" ->
                IF env["tpl"] = Unbound THEN Thrown(JsError("ReferenceError"))
                ELSE Returned(env["tpl"])
           [] l.code = "return 1+1" -> Returned(Num("2"))
           [] l.code = "return table.name" ->
                IF env["table"] = Unbound THEN Thrown(JsError("ReferenceError"))
                ELSE IF env["table"] = Undefined THEN Thrown(JsError("TypeError"))
                ELSE Returned(Str(env["table"].name))
           [] l.code = "throw boom" -> Thrown(Str("boom"))
           [] OTHER -> Exec(code, i + 1, env)

\* new Function(sourceCode)(): a body that still holds an import or export
\* keyword does not compile; otherwise the body runs.
Evaluate(sourceCode) ==
    IF \E i \in 1..Len(sourceCode) : sourceCode[i].kw # ""
    THEN Thrown(JsError("SyntaxError"))
    ELSE Exec(sourceCode, 1, [n \in Identifiers |-> Unbound])

\* ------------------------------------------------------------- editors

\* A mounted editor widget showing `value`.
Editor(value) == [t |-> "editor", disposed |-> FALSE, value |-> value]
\* The same widget after its component unmounted: its model is gone and
\* getValue() answers ''.
Disposed(ed) == IF ed = Undefined THEN Undefined ELSE [ed EXCEPT !.disposed = TRUE, !.value = ""]

\* ---------------------------------------------------------------- state

VARIABLES
    loading,          \* useLoading: number of outstanding calls
    rk,               \* key of the result viewer
    editorReloadKey,  \* key of the template and definitions editors
    definitions,      \* Definitions Text
    errors,           \* keys of the form fields flagged true
    errorMessage,     \* the banner's message, '' when all is well
    conn,             \* the submitted connection info
    database, schema, tables, table, fields,
    tplEditor,        \* the template editor handed over by tplEditorDidMount
    tab,              \* 0: definitions, 1: result
    resultEditor,     \* the result viewer handed over by resultEditorDidMount
    result, resultType,
    inflight,         \* promises handed to promiseHandler, not yet settled
    last              \* history: the operation that produced this state

vars ==
    << loading, rk, editorReloadKey, definitions, errors, errorMessage, conn,
       database, schema, tables, table, fields, tplEditor, tab, resultEditor,
       result, resultType, inflight, last >>

browse == << database, schema, tables, table, fields >>
form == << errors, conn >>
remote == << loading, inflight >>
viewer == << rk, tab, resultEditor, result, resultType >>
template == << editorReloadKey, definitions, tplEditor >>

Init ==
    /\ loading = 0
    /\ rk = 0
    /\ editorReloadKey = 0
    /\ definitions = PRESET_DEFINITIONS
    /\ errors = {}
    /\ errorMessage = ""
    /\ conn = Undefined
    /\ database = Undefined
    /\ schema = Undefined
    /\ tables = Undefined
    /\ table = Undefined
    /\ fields = Undefined
    /\ tplEditor = Undefined
    /\ tab = 0
    /\ resultEditor = Undefined
    /\ result = Str("")
    /\ resultType = "javascript"
    /\ inflight = [r \in Requests |-> 0]
    /\ last = [op |-> "init", branch |-> ""]

\* ------------------------------------------------------ loading hooks

\* useLoading: load() counts an outstanding call in, loaded() counts it
\* out; the UI is busy while the count is positive.
load(n) == n + 1
loaded(n) == n - 1
Busy == loading > 0

\* useCounter: the function it hands out (plus, reloadEditor) moves the
\* key to its next value.
increment(k) == k + 1

\* ------------------------------------------------------- remote calls

\* promiseHandler, up to handing the promise over: load() counts the call
\* in, and the promise is outstanding.
promiseHandlerStart(req) ==
    /\ loading < MaxInFlight
    /\ loading' = load(loading)
    /\ inflight' = [inflight EXCEPT ![req] = @ + 1]

\* promiseResolved without setEM(''): a success leaves the banner alone.
promiseResolved_KeepsBanner(req) ==
    /\ inflight[req] > 0
    /\ CASE req.kind = "connect" ->
              /\ database' = ResponseOf(req)
              /\ UNCHANGED << schema, tables, table, fields >>
         [] req.kind = "getTables" ->
              /\ tables' = ResponseOf(req)
              /\ UNCHANGED << database, schema, table, fields >>
         [] req.kind = "getFields" ->
              /\ fields' = ResponseOf(req)
              /\ UNCHANGED << database, schema, tables, table >>
    /\ loading' = loaded(loading)
    /\ inflight' = [inflight EXCEPT ![req] = @ - 1]
    /\ last' = [op |-> "resolved", branch |-> req.kind]
    /\ UNCHANGED << form, errorMessage, viewer, template >>

\* promiseHandler's .then branch: the call resolved.  The banner is
\* cleared, the caller's own .then stores the data, loaded() counts the
\* call out.
promiseResolved(req) ==
    /\ inflight[req] > 0
    /\ errorMessage' = ""
    /\ CASE req.kind = "connect" ->
              /\ database' = ResponseOf(req)
              /\ UNCHANGED << schema, tables, table, fields >>
         [] req.kind = "getTables" ->
              /\ tables' = ResponseOf(req)
              /\ UNCHANGED << database, schema, table, fields >>
         [] req.kind = "getFields" ->
              /\ fields' = ResponseOf(req)
              /\ UNCHANGED << database, schema, tables, table >>
    /\ loading' = loaded(loading)
    /\ inflight' = [inflight EXCEPT ![req] = @ - 1]
    /\ last' = [op |-> "resolved", branch |-> req.kind]
    /\ UNCHANGED << form, viewer, template >>

\* promiseRejected with loaded() called on success only.
promiseRejected_StaysBusy(req) ==
    /\ inflight[req] > 0
    /\ errorMessage' = stringifyError(RemoteError(req))
    /\ inflight' = [inflight EXCEPT ![req] = @ - 1]
    /\ last' = [op |-> "rejected", branch |-> req.kind]
    /\ UNCHANGED << loading, browse, form, viewer, template >>

\* promiseHandler's .catch branch: the call rejected.  The banner shows
\* the stringified error, nothing is stored, loaded() counts the call out.
promiseRejected(req) ==
    /\ inflight[req] > 0
    /\ errorMessage' = stringifyError(RemoteError(req))
    /\ loading' = loaded(loading)
    /\ inflight' = [inflight EXCEPT ![req] = @ - 1]
    /\ last' = [op |-> "rejected", branch |-> req.kind]
    /\ UNCHANGED << browse, form, viewer, template >>

\* ------------------------------------------------------ connection form

\* The values the submitted form's inputs can hold (target[c]?.value).
HostInputs == {Undefined, Str("")} \cup {Str(h) : h \in Hosts}
PortInputs == {Undefined, Str(""), Str("3306")}
FormTargets ==
    [host : HostInputs, port : PortInputs,
     username : {Str("root")}, password : {Str("")}]

\* ValidationErrors with the two checks accumulated instead of chained.
ValidationErrors_Accumulating(data) ==
    (IF Falsy(data.host) THEN {"host"} ELSE {})
      \cup (IF Falsy(data.port) THEN {"port"} ELSE {})

\* ValidationErrors with the port check left out.
ValidationErrors_HostOnly(data) ==
    IF Falsy(data.host) THEN {"host"} ELSE {}

\* newErrors of onConnectionInfoSubmit: host first, port only when host
\* is given.
ValidationErrors(data) ==
    IF Falsy(data.host) THEN {"host"}
    ELSE IF Falsy(data.port) THEN {"port"}
    ELSE {}

\* onConnectionInfoSubmit that also puts the preset definitions back when a
\* new connection is opened.
onConnectionInfoSubmit_ResetsDefinitions(target) ==
    LET data == [c \in DOMAIN DEFAULT_VALUE |-> target[c]]
        newErrors == ValidationErrors(data)
    IN  /\ errors' = newErrors
        /\ IF newErrors # {}
           THEN /\ last' = [op |-> "submit", branch |-> "invalid"]
                /\ UNCHANGED << conn, database, remote, definitions >>
           ELSE /\ conn' = data
                /\ database' = Undefined
                /\ definitions' = PRESET_DEFINITIONS
                /\ promiseHandlerStart([kind |-> "connect", arg |-> data.host.v])
                /\ last' = [op |-> "submit", branch |-> "valid"]
        /\ UNCHANGED << schema, tables, table, fields, errorMessage, viewer,
                        editorReloadKey, tplEditor >>

onConnectionInfoSubmit(target) ==
    LET data == [c \in DOMAIN DEFAULT_VALUE |-> target[c]]
        newErrors == ValidationErrors(data)
    IN  /\ errors' = newErrors
        /\ IF newErrors # {}
           THEN /\ last' = [op |-> "submit", branch |-> "invalid"]
                /\ UNCHANGED << conn, database, remote >>
           ELSE /\ conn' = data
                /\ database' = Undefined
                /\ promiseHandlerStart([kind |-> "connect", arg |-> data.host.v])
                /\ last' = [op |-> "submit", branch |-> "valid"]
        /\ UNCHANGED << schema, tables, table, fields, errorMessage, viewer, template >>

\* ------------------------------------------------------------ browser

\* What ele renders: the schema list, the table list or the field list.
ShowsSchemas == database # Undefined /\ tables = Undefined
ShowsTables == database # Undefined /\ tables # Undefined /\ fields = Undefined
ShowsFields == database # Undefined /\ tables # Undefined /\ fields # Undefined

Items(arr) == {arr[i] : i \in 1..Len(arr)}

\* onDatabaseClick with the schema stored only once its tables arrive.
onDatabaseClick_SelectsLater(s) ==
    /\ ShowsSchemas
    /\ s \in Items(database.schemas)
    /\ promiseHandlerStart([kind |-> "getTables", arg |-> s.name])
    /\ last' = [op |-> "onDatabaseClick", branch |-> ""]
    /\ UNCHANGED << browse, form, errorMessage, viewer, template >>

\* Click on a schema of the schema list.
onDatabaseClick(s) ==
    /\ ShowsSchemas
    /\ s \in Items(database.schemas)
    /\ schema' = s
    /\ promiseHandlerStart([kind |-> "getTables", arg |-> s.name])
    /\ last' = [op |-> "onDatabaseClick", branch |-> ""]
    /\ UNCHANGED << database, tables, table, fields, form, errorMessage, viewer, template >>

\* Click on a table of the table list.
onTableClick(tbl) ==
    /\ ShowsTables
    /\ tbl \in Items(tables.items)
    /\ table' = tbl
    /\ promiseHandlerStart([kind |-> "getFields", arg |-> tbl.name])
    /\ last' = [op |-> "onTableClick", branch |-> ""]
    /\ UNCHANGED << database, schema, tables, fields, form, errorMessage, viewer, template >>

\* The "back" item of the field list: setFields(undefined).
backFromFields ==
    /\ ShowsFields
    /\ fields' = Undefined
    /\ last' = [op |-> "backFromFields", branch |-> ""]
    /\ UNCHANGED << database, schema, tables, table, form, errorMessage, remote, viewer, template >>

\* The "back" item of the table list: setTables(undefined).
backFromTables ==
    /\ ShowsTables
    /\ tables' = Undefined
    /\ last' = [op |-> "backFromTables", branch |-> ""]
    /\ UNCHANGED << database, schema, table, fields, form, errorMessage, remote, viewer, template >>

\* setEditorDefinitions without its guard on fields.
setEditorDefinitions_Unguarded ==
    /\ editorReloadKey < MaxKey
    /\ definitions' = BuildDefinitions(database, table, fields)
    /\ editorReloadKey' = increment(editorReloadKey)
    /\ tplEditor' = Editor(DefaultTemplate)
    /\ last' = [op |-> "setEditorDefinitions", branch |-> "injected"]
    /\ UNCHANGED << errorMessage, browse, form, remote, viewer >>

\* setEditorDefinitions without reloadEditor(): the definitions change under
\* the mounted template editor.
setEditorDefinitions_NoReload ==
    /\ IF fields = Undefined
       THEN /\ errorMessage' = MsgNothingLoaded
            /\ last' = [op |-> "setEditorDefinitions", branch |-> "nothingLoaded"]
            /\ UNCHANGED template
       ELSE /\ editorReloadKey < MaxKey
            /\ definitions' = BuildDefinitions(database, table, fields)
            /\ last' = [op |-> "setEditorDefinitions", branch |-> "injected"]
            /\ UNCHANGED << editorReloadKey, tplEditor, errorMessage >>
    /\ UNCHANGED << browse, form, remote, viewer >>

\* setEditorDefinitions: refuse when no fields are loaded, else rebuild the
\* definitions and reloadEditor(), which remounts the template editor on a
\* fresh default model.
setEditorDefinitions ==
    /\ IF fields = Undefined
       THEN /\ errorMessage' = MsgNothingLoaded
            /\ last' = [op |-> "setEditorDefinitions", branch |-> "nothingLoaded"]
            /\ UNCHANGED template
       ELSE /\ editorReloadKey < MaxKey
            /\ definitions' = BuildDefinitions(database, table, fields)
            /\ editorReloadKey' = increment(editorReloadKey)
            /\ tplEditor' = Editor(DefaultTemplate)
            /\ last' = [op |-> "setEditorDefinitions", branch |-> "injected"]
            /\ UNCHANGED errorMessage
    /\ UNCHANGED << browse, form, remote, viewer >>

\* The "inject" item of the field list.
injectClick == ShowsFields /\ setEditorDefinitions

\* ------------------------------------------------------ template editor

\* The template editor reports itself after its first mount.
tplEditorDidMount ==
    /\ tplEditor = Undefined
    /\ tplEditor' = Editor(DefaultTemplate)
    /\ last' = [op |-> "tplEditorDidMount", branch |-> ""]
    /\ UNCHANGED << editorReloadKey, definitions, browse, form, errorMessage, remote, viewer >>

\* The user replaces the script in the template editor.
editTemplate(script) ==
    /\ tplEditor # Undefined
    /\ tplEditor.value # script
    /\ tplEditor' = [tplEditor EXCEPT !.value = script]
    /\ last' = [op |-> "editTemplate", branch |-> ""]
    /\ UNCHANGED << editorReloadKey, definitions, browse, form, errorMessage, remote, viewer >>

\* --------------------------------------------------------- result viewer

\* The result viewer after a render: mounted on `${result}` while the
\* result tab shows, otherwise whatever resultEditor held, disposed.
ViewerAfterRender(tb, res, old) ==
    IF tb = 1 THEN Editor(ToString(res)) ELSE Disposed(old)

\* editor?.getValue() || ''
GetValueOrEmpty(ed) == IF ed = Undefined THEN "" ELSE ed.value

handleTabChange(nv) ==
    /\ nv # tab
    /\ tab' = nv
    /\ resultEditor' = ViewerAfterRender(nv, result, resultEditor)
    /\ last' = [op |-> "handleTabChange", branch |-> ""]
    /\ UNCHANGED << rk, result, resultType, browse, form, errorMessage, remote, template >>

\* The user types into the result viewer.
editResult(text) ==
    /\ tab = 1
    /\ resultEditor # Undefined
    /\ resultEditor.value # text
    /\ resultEditor' = [resultEditor EXCEPT !.value = text]
    /\ last' = [op |-> "editResult", branch |-> ""]
    /\ UNCHANGED << rk, tab, result, resultType, browse, form, errorMessage, remote, template >>

onResultTypeChange(language) ==
    /\ language # resultType
    /\ rk < MaxKey
    /\ resultType' = language
    /\ result' = Str(GetValueOrEmpty(resultEditor))
    /\ rk' = increment(rk)
    /\ resultEditor' = ViewerAfterRender(tab, result', resultEditor)
    /\ last' = [op |-> "onResultTypeChange", branch |-> ""]
    /\ UNCHANGED << tab, browse, form, errorMessage, remote, template >>

\* ------------------------------------------------------------ execution

\* sourceCode of printResult.
SourceCode(defs, source) == StripImportExport(defs \o source)

\* printResultThrew with the result reset in the catch block.
printResultThrew_ResetsResult(e) ==
    /\ errorMessage' = stringifyError(e)
    /\ result' = Str("")
    /\ last' = [op |-> "printResult", branch |-> "threw"]
    /\ UNCHANGED << rk, tab, resultEditor, resultType >>

\* The catch block: the banner shows the stringified exception.
printResultThrew(e) ==
    /\ errorMessage' = stringifyError(e)
    /\ last' = [op |-> "printResult", branch |-> "threw"]
    /\ UNCHANGED viewer

\* printResultNoReturn with the r === undefined test missing: undefined is
\* stored like any other value.
printResultNoReturn_StoresUndefined ==
    /\ rk < MaxKey
    /\ result' = Undefined
    /\ rk' = increment(rk)
    /\ resultEditor' = ViewerAfterRender(tab, Undefined, resultEditor)
    /\ errorMessage' = ""
    /\ last' = [op |-> "printResult", branch |-> "noReturn"]
    /\ UNCHANGED << tab, resultType >>

\* r === undefined: the banner says there was no return statement.
printResultNoReturn ==
    /\ errorMessage' = MsgNoReturn
    /\ last' = [op |-> "printResult", branch |-> "noReturn"]
    /\ UNCHANGED viewer

\* printResultStored with setEM('') forgotten.
printResultStored_KeepsBanner(r) ==
    /\ rk < MaxKey
    /\ result' = r
    /\ rk' = increment(rk)
    /\ resultEditor' = ViewerAfterRender(tab, r, resultEditor)
    /\ last' = [op |-> "printResult", branch |-> "stored"]
    /\ UNCHANGED << errorMessage, tab, resultType >>

\* Otherwise: setResult(r), plus() remounts the result viewer, and the
\* banner is cleared.
printResultStored(r) ==
    /\ rk < MaxKey
    /\ result' = r
    /\ rk' = increment(rk)
    /\ resultEditor' = ViewerAfterRender(tab, r, resultEditor)
    /\ errorMessage' = ""
    /\ last' = [op |-> "printResult", branch |-> "stored"]
    /\ UNCHANGED << tab, resultType >>

\* printResultNotReady with the else branch missing: nothing is reported.
printResultNotReady_Silent ==
    /\ last' = [op |-> "printResult", branch |-> "notReady"]
    /\ UNCHANGED << errorMessage, viewer >>

\* tplEditor is still undefined: the banner says so.
printResultNotReady ==
    /\ errorMessage' = MsgEditorNotReady
    /\ last' = [op |-> "printResult", branch |-> "notReady"]
    /\ UNCHANGED viewer

\* What running the current script against the current definitions gives.
Outcome == Evaluate(SourceCode(definitions, tplEditor.value))

printResult ==
    /\ IF tplEditor # Undefined
       THEN IF Outcome.kind = "throw" THEN printResultThrew(Outcome.val)
            ELSE IF Outcome.val = Undefined THEN printResultNoReturn
            ELSE printResultStored(Outcome.val)
       ELSE printResultNotReady
    /\ UNCHANGED << browse, form, remote, template >>

\* -------------------------------------------------------- specification

\* The whole component.
Next ==
    \/ \E target \in FormTargets : onConnectionInfoSubmit(target)
    \/ \E req \in Requests : promiseResolved(req)
    \/ \E req \in Requests : promiseRejected(req)
    \/ \E s \in [name : SchemaNames] : onDatabaseClick(s)
    \/ \E tbl \in [name : TableNames] : onTableClick(tbl)
    \/ backFromFields
    \/ backFromTables
    \/ injectClick
    \/ tplEditorDidMount
    \/ \E script \in Scripts : editTemplate(script)
    \/ \E nv \in {0, 1} : handleTabChange(nv)
    \/ \E text \in ResultEdits : editResult(text)
    \/ \E language \in LANGUAGES : onResultTypeChange(language)
    \/ printResult

Spec == Init /\ [][Next]_vars

\* The state space of Spec is the product of the browser's and the
\* engine's, which share only the banner.  The browser's callbacks read
\* nothing the editors write and the editors' callbacks read nothing the
\* browser writes (setEditorDefinitions apart), so each side is also
\* explored on its own, with every input.

\* The connection form, the browser and the remote calls.
NextBrowser ==
    \/ \E target \in FormTargets : onConnectionInfoSubmit(target)
    \/ \E req \in Requests : promiseResolved(req)
    \/ \E req \in Requests : promiseRejected(req)
    \/ \E s \in [name : SchemaNames] : onDatabaseClick(s)
    \/ \E tbl \in [name : TableNames] : onTableClick(tbl)
    \/ backFromFields
    \/ backFromTables

SpecBrowser == Init /\ [][NextBrowser]_vars

\* The form of a connection to h1.
ConnectTargets == {target \in FormTargets : target.host = Str("h1") /\ target.port = Str("3306")}

\* The template editor, the execution engine and the result viewer, with
\* connection attempts going on beside them.
NextEngine ==
    \/ \E target \in ConnectTargets : onConnectionInfoSubmit(target)
    \/ \E req \in Requests : promiseResolved(req)
    \/ \E req \in Requests : promiseRejected(req)
    \/ tplEditorDidMount
    \/ \E script \in Scripts : editTemplate(script)
    \/ \E nv \in {0, 1} : handleTabChange(nv)
    \/ \E text \in ResultEdits : editResult(text)
    \/ \E language \in LANGUAGES : onResultTypeChange(language)
    \/ printResult

SpecEngine == Init /\ [][NextEngine]_vars

\* The browser of one database with the setEditorDefinitions callback
\* invoked on its own, whatever list ele renders: the field list's "inject"
\* item is the only caller, and it is rendered only while fields is defined.
NextInject ==
    \/ \E target \in ConnectTargets : onConnectionInfoSubmit(target)
    \/ \E req \in Requests : promiseResolved(req)
    \/ \E req \in Requests : promiseRejected(req)
    \/ \E s \in [name : SchemaNames] : onDatabaseClick(s)
    \/ \E tbl \in [name : TableNames] : onTableClick(tbl)
    \/ backFromFields
    \/ backFromTables
    \/ setEditorDefinitions

SpecInject == Init /\ [][NextInject]_vars

\* A template that reads the injected table.
ReadsTableName ==
    << Line("import;", "dbtpl", Undefined),
       Line("", "return table.name", Undefined) >>

\* The generator at work on one database: browse, inject from the field
\* list, type the template that reads the injected table (or leave the
\* default one), run it, switch the viewer's language.
NextWorkbench ==
    \/ \E target \in ConnectTargets : onConnectionInfoSubmit(target)
    \/ \E req \in Requests : promiseResolved(req)
    \/ \E req \in Requests : promiseRejected(req)
    \/ \E s \in [name : SchemaNames] : onDatabaseClick(s)
    \/ \E tbl \in [name : TableNames] : onTableClick(tbl)
    \/ backFromFields
    \/ backFromTables
    \/ injectClick
    \/ tplEditorDidMount
    \/ \E script \in {ReadsTableName} : editTemplate(script)
    \/ printResult
    \/ \E language \in LANGUAGES : onResultTypeChange(language)

SpecWorkbench == Init /\ [][NextWorkbench]_vars

\* ---------------------------------------------------------------- claims

Did(op, branch) == last = [op |-> op, branch |-> branch]

\* C1 (as stated): once the fields fetched for the selected table are
\* stored, the response to an earlier selection, arriving late, does not
\* replace them: they stay those of the selected table.
C1_FieldsBelongToSelectedTable ==
    [][(/\ table # Undefined
        /\ fields = FieldsOf(table.name)
        /\ last'.op = "resolved")
          => fields' = FieldsOf(table.name)]_vars

\* C2 (as stated): right after a submission that passes validation,
\* database, schema, tables, table and fields are all undefined.
C2_SubmitDiscardsEverything ==
    Did("submit", "valid")
        => /\ database = Undefined
           /\ schema = Undefined
           /\ tables = Undefined
           /\ table = Undefined
           /\ fields = Undefined

\* C3: a submission whose host is empty or missing, whatever its port,
\* sets errors to exactly {host}, starts no call and leaves database alone.
C3_MissingHostReportsHostOnly ==
    [][\A target \in FormTargets :
         (Falsy(target.host) /\ onConnectionInfoSubmit(target))
            => /\ errors' = {"host"}
               /\ UNCHANGED << inflight, loading, database >>]_vars

C3_Witness ==
    /\ Did("submit", "invalid")
    /\ errors = {"host"}
    /\ database # Undefined
    /\ loading = 0

\* C4: a submission with a host and an empty port sets errors to exactly
\* {port} and starts no call.
C4_MissingPortReportsPortOnly ==
    [][\A target \in FormTargets :
         (~Falsy(target.host) /\ Falsy(target.port) /\ onConnectionInfoSubmit(target))
            => /\ errors' = {"port"}
               /\ UNCHANGED << inflight, loading >>]_vars

C4_Witness ==
    /\ Did("submit", "invalid")
    /\ errors = {"port"}
    /\ loading = 0

\* C5 (as stated, in the case it names: the definitions tab shows, so no
\* result viewer is mounted): switching the display language leaves the
\* text of result as it was.
C5_LanguageSwitchKeepsResult ==
    [][(last'.op = "onResultTypeChange" /\ tab = 0)
          => ToString(result') = ToString(result)]_vars

\* C6: an execution that returns undefined sets the banner to the "no
\* return statement" message and leaves result as it was.
C6_NoReturnKeepsResult ==
    [][(/\ last'.op = "printResult"
        /\ tplEditor # Undefined
        /\ Outcome = Returned(Undefined))
          => /\ errorMessage' = MsgNoReturn
             /\ result' = result]_vars

C6_Witness ==
    /\ Did("printResult", "noReturn")
    /\ errorMessage = MsgNoReturn
    /\ result = Num("2")

\* C7: an execution that throws sets the banner to the stringified thrown
\* value and leaves result as it was.
C7_ThrowKeepsResult ==
    [][(/\ last'.op = "printResult"
        /\ tplEditor # Undefined
        /\ Outcome.kind = "throw")
          => /\ errorMessage' = stringifyError(Outcome.val)
             /\ result' = result]_vars

C7_Witness ==
    /\ Did("printResult", "threw")
    /\ errorMessage = stringifyError(Str("boom"))
    /\ result = Num("2")

\* C8: an execution that returns a value other than undefined stores it
\* as result and clears the banner, whatever the banner showed.
C8_ValueStoredBannerCleared ==
    [][(/\ last'.op = "printResult"
        /\ tplEditor # Undefined
        /\ Outcome.kind = "return"
        /\ Outcome.val # Undefined)
          => /\ result' = Outcome.val
             /\ errorMessage' = ""]_vars

\* A value was stored after a connection attempt had failed.
C8_Witness ==
    /\ Did("printResult", "stored")
    /\ result = Num("2")
    /\ errorMessage = ""
    /\ conn # Undefined
    /\ database = Undefined
    /\ loading = 0

\* C9: an execution asked for while tplEditor is undefined sets the banner
\* to the "not yet initialized" message and changes nothing else.
C9_NotReadyRefused ==
    [][(last'.op = "printResult" /\ tplEditor = Undefined)
          => /\ errorMessage' = MsgEditorNotReady
             /\ UNCHANGED << result, rk, resultEditor, definitions, tplEditor >>]_vars

C9_Witness ==
    /\ Did("printResult", "notReady")
    /\ tplEditor = Undefined
    /\ errorMessage = MsgEditorNotReady

\* C10: setEditorDefinitions called while fields is undefined leaves the
\* definitions and both editors alone and sets the banner to the "nothing
\* loaded" message.
C10_InjectWithoutFieldsRefused ==
    [][(last'.op = "setEditorDefinitions" /\ fields = Undefined)
          => /\ errorMessage' = MsgNothingLoaded
             /\ UNCHANGED << definitions, editorReloadKey, tplEditor >>]_vars

C10_Witness ==
    /\ Did("setEditorDefinitions", "nothingLoaded")
    /\ fields = Undefined
    /\ table # Undefined
    /\ errorMessage = MsgNothingLoaded
    /\ definitions = PRESET_DEFINITIONS

\* C11 (as stated): right after the "back" item of the field list, fields
\* and the selected table are both undefined.
C11_BackFromFieldsDiscardsTable ==
    Did("backFromFields", "") => (fields = Undefined /\ table = Undefined)

\* C12 (as stated): right after the "back" item of the table list, tables
\* and the selected schema are both undefined.
C12_BackFromTablesDiscardsSchema ==
    Did("backFromTables", "") => (tables = Undefined /\ schema = Undefined)

\* C13 (as stated): right after a connect call failed, database is
\* undefined and the banner shows the stringified failure; right after one
\* succeeded, database is a database connect returns.
C13_FailedConnectStaysDisconnected ==
    /\ Did("rejected", "connect")
         => /\ database = Undefined
            /\ \E h \in Hosts :
                 errorMessage = stringifyError(RemoteError([kind |-> "connect", arg |-> h]))
    /\ Did("resolved", "connect")
         => \E h \in Hosts : database = DatabaseOf(h)

GetTables(s) == [kind |-> "getTables", arg |-> s.name]

\* C14: clicking a schema stores it as the selected schema at once and
\* starts getTables for it; when a getTables call fails the banner shows the
\* failure and the selected schema and tables stay as they were.
C14_SchemaSelectedEvenIfTablesFail ==
    [][/\ \A s \in [name : SchemaNames] :
            onDatabaseClick(s)
              => /\ schema' = s
                 /\ inflight'[GetTables(s)] = inflight[GetTables(s)] + 1
                 /\ tables' = tables
       /\ (last' = [op |-> "rejected", branch |-> "getTables"])
              => /\ \E s \in [name : SchemaNames] :
                      errorMessage' = stringifyError(RemoteError(GetTables(s)))
                 /\ schema' = schema
                 /\ tables' = tables]_vars

C14_Witness ==
    /\ Did("rejected", "getTables")
    /\ schema = [name |-> "s1"]
    /\ tables = Undefined
    /\ errorMessage = stringifyError(RemoteError(GetTables(schema)))

\* Number of calls handed to promiseHandler and not yet settled.
RECURSIVE CountIn(_)
CountIn(reqs) ==
    IF reqs = {} THEN 0
    ELSE LET r == CHOOSE x \in reqs : TRUE
         IN  inflight[r] + CountIn(reqs \ {r})
Outstanding == CountIn(Requests)

\* C15: the busy counter equals the number of calls started and not yet
\* settled, whether they settled by resolving or by rejecting; so the UI is
\* busy exactly while some call is outstanding.
C15_BusyCounterCountsOutstandingCalls ==
    /\ loading = Outstanding
    /\ Busy <=> Outstanding > 0

\* One of two concurrent calls has failed, the other is still outstanding.
C15_Witness ==
    /\ Did("rejected", "getFields")
    /\ Outstanding = 1
    /\ Busy

\* C17 (as stated): fields defined implies a table is selected and tables
\* is defined; tables defined implies a schema is selected; a selected
\* schema implies database is defined.
C17_BrowsingStateNested ==
    /\ fields # Undefined => (table # Undefined /\ tables # Undefined)
    /\ tables # Undefined => schema # Undefined
    /\ schema # Undefined => database # Undefined

Injected == [op |-> "setEditorDefinitions", branch |-> "injected"]

\* Callbacks that complete a remote call or an execution.
Completes(l) == l.op \in {"resolved", "rejected", "printResult"}

\* C16: the banner is one text, written by every remote call and execution
\* as it completes: the stringified failure when the call rejected or the
\* script threw, empty when the call resolved or the script returned a
\* value; the two refusals of an execution write their own message.  A
\* successful inject and every other callback that is not a completion
\* leave it as it was (a refused inject apart, C10).
C16_BannerShowsLatestOutcome ==
    [][/\ last'.op = "rejected"
            => errorMessage' = stringifyError(RemoteError([kind |-> last'.branch, arg |-> ""]))
       /\ last'.op = "resolved" => errorMessage' = ""
       /\ last' = [op |-> "printResult", branch |-> "threw"]
            => errorMessage' = stringifyError(Outcome.val)
       /\ last' = [op |-> "printResult", branch |-> "stored"] => errorMessage' = ""
       /\ last' = [op |-> "printResult", branch |-> "noReturn"]
            => errorMessage' = MsgNoReturn
       /\ last' = [op |-> "printResult", branch |-> "notReady"]
            => errorMessage' = MsgEditorNotReady
       /\ (~Completes(last') /\ last'.branch # "nothingLoaded")
            => errorMessage' = errorMessage]_vars

\* A failure reported after an earlier success: the banner shows the
\* failure of the call that completed last, beside the fields of the other.
C16_Witness ==
    /\ Did("rejected", "getFields")
    /\ fields # Undefined
    /\ errorMessage = "Error: getFields failed"

\* C18: the definitions text starts as the preset and changes in no step
\* but a successful inject, which sets it to the text built from database,
\* table and fields.
C18_DefinitionsChangeOnlyOnInject ==
    /\ definitions = PRESET_DEFINITIONS
    /\ [][definitions' # definitions
            => /\ last' = Injected
               /\ fields # Undefined
               /\ definitions' = BuildDefinitions(database, table, fields)]_vars

\* t1 was injected, then t2 was selected and its fields arrived: the
\* definitions are still those of t1.
C18_Witness ==
    /\ Did("resolved", "getFields")
    /\ table = [name |-> "t2"]
    /\ fields = FieldsOf("t2")
    /\ definitions = BuildDefinitions(DatabaseOf("h1"), [name |-> "t1"], FieldsOf("t1"))

\* The values the injected definitions declare.
Declared(i) == LiteralValue(definitions[i].arg)

\* C19 (as stated): right after a successful inject the declared fields
\* are the declared table's, and the declared table is one of a schema of
\* the declared database.
C19_InjectedValuesBelongTogether ==
    Did("setEditorDefinitions", "injected")
      => LET db == Declared(1)
             tbl == Declared(2)
             flds == Declared(3)
         IN  /\ db # Undefined
             /\ tbl # Undefined
             /\ flds = FieldsOf(tbl.name)
             /\ \E s \in Items(db.schemas) : tbl \in Items(TablesOf(s.name).items)

\* C20: a successful inject increments the editor reload key and leaves the
\* template editor freshly mounted on the default template, whatever was
\* typed; result, the result viewer and the browsing state are untouched.
C20_InjectRemountsTemplateEditor ==
    [][last' = Injected
         => /\ editorReloadKey' = editorReloadKey + 1
            /\ tplEditor' = Editor(DefaultTemplate)
            /\ result' = result
            /\ UNCHANGED << browse, viewer >>]_vars

\* Second inject, after the typed template printed the first injected
\* table's name: the script is gone, the result stays.
C20_Witness ==
    /\ Did("setEditorDefinitions", "injected")
    /\ editorReloadKey = 2
    /\ tplEditor = Editor(DefaultTemplate)
    /\ result = Str("t1")

====
